---- MODULE Spec2Model ----
(***************************************************************************)
(* Model of Bot.py: a single-operator Telegram bot that keeps a registry   *)
(* of channels and a store of one-shot scheduled messages, each with a     *)
(* job in the job queue, and rewrites two JSON files after every mutation. *)
(*                                                                         *)
(* Command handlers mutate the globals between two awaits, so each is one  *)
(* atomic action.  The job callback send_scheduled_message awaits the      *)
(* channel send and the requester notifications; it is split at those      *)
(* awaits, and other handlers and other callbacks run in between.          *)
(***************************************************************************)
EXTENDS Integers, FiniteSets, Sequences, TLC

VARIABLES
    now,                \* wall clock, whole seconds
    channels,           \* global dict channels: name -> channel id
    scheduled_messages, \* global dict scheduled_messages: id -> ScheduledMessage
    jobs,               \* job queue: outstanding one-shot jobs
    running,            \* job callbacks suspended at an await
    nextJob,            \* identity of the next Job object created
    channelsFile,       \* channels.json
    messagesFile,       \* messages.json
    calls,              \* history: what each job callback found, <<job, message id, kind, channel>>
    issued              \* history: message ids returned by a successful /schedule

vars == <<now, channels, scheduled_messages, jobs, running, nextJob,
          channelsFile, messagesFile, calls, issued>>

-----------------------------------------------------------------------------
(* Bounds of the model *)

MaxJobs == 2        \* /schedule commands accepted over the whole behaviour
MaxMinutes == 1     \* the clock advances by at most this many whole minutes
StartTime == 7      \* the clock's reading, in seconds, when the bot first starts

(* Program constants *)

YOUR_USER_ID == 1001
SecondsPerMinute == 60
MaxTextLen == 4000

OtherUser == "intruder"
Operator == "operator"
Users == {Operator, OtherUser}

\* update.effective_user.id of each sender
UserId(u) == IF u = Operator THEN YOUR_USER_ID ELSE YOUR_USER_ID + 1

-----------------------------------------------------------------------------
(* Small input alphabets *)

ChannelNameArgs == {"OPS", "dev"}
\* context.args[1] of /schedule: a number of minutes, or text int() rejects
Minutes(m) == [valid |-> TRUE, value |-> m]
NotANumber == [valid |-> FALSE, value |-> 0]
Delays == {1, 2}
ButtonKinds == {"enable", "disable", "delete", "other"}
UnknownId == 0 - 1

\* str.lower()
Lower(s) == IF s = "OPS" THEN "ops" ELSE s

\* channel_id.startswith('-100')
StartsWith100(cid) == cid = "-100555"

\* len(message_text)
TextLen(t) == IF t = "hello" THEN 5 ELSE MaxTextLen + 1

None == 0

EmptyDict == [x \in {} |-> None]

NoChannel == ""

Put(d, k, v) == [x \in DOMAIN d \cup {k} |-> IF x = k THEN v ELSE d[x]]

Del(d, k) == [x \in DOMAIN d \ {k} |-> d[x]]

-----------------------------------------------------------------------------
(* Persistence *)

\* datetime.isoformat(): the timestamp written as minute and second fields
IsoFormat(t) == <<t \div SecondsPerMinute, t % SecondsPerMinute>>

\* datetime.fromisoformat()
FromIsoFormat(s) == s[1] * SecondsPerMinute + s[2]

\* the dict save_data builds for one ScheduledMessage (the job is not saved)
ToSaved(m) ==
    [chat_id |-> m.chat_id, text |-> m.text,
     scheduled_time |-> IsoFormat(m.scheduled_time),
     channel |-> m.channel, active |-> m.active]

\* messages_to_save of save_data
MessagesToSave(msgs) == [id \in DOMAIN msgs |-> ToSaved(msgs[id])]

\* FromSaved without active=msg_data['active']: the constructor's default applies
FromSaved_DefaultActive(id, d) ==
    [message_id |-> id, chat_id |-> d.chat_id, text |-> d.text,
     scheduled_time |-> FromIsoFormat(d.scheduled_time),
     channel |-> d.channel, job |-> None, active |-> TRUE]

\* the ScheduledMessage load_data builds from one saved dict: job defaults to None
FromSaved(id, d) ==
    [message_id |-> id, chat_id |-> d.chat_id, text |-> d.text,
     scheduled_time |-> FromIsoFormat(d.scheduled_time),
     channel |-> d.channel, job |-> None, active |-> d.active]

\* the keys load_data reads from one saved dict; a dict that lacks one raises
\* KeyError
SavedKeys == {"chat_id", "text", "scheduled_time", "channel", "active"}

\* saved_messages.items(): the ids in the order of the file, which is the order
\* of the seconds they were made from
RECURSIVE FileOrder(_)
FileOrder(ids) ==
    IF ids = {} THEN <<>>
    ELSE LET first == CHOOSE x \in ids : \A y \in ids : x <= y
         IN <<first>> \o FileOrder(ids \ {first})

\* the loop of load_data over saved_messages: it stores record after record in
\* scheduled_messages (acc) and stops at the first one that raises
RECURSIVE LoadLoop(_, _, _)
LoadLoop(ids, data, acc) ==
    IF ids = <<>> THEN [raised |-> FALSE, store |-> acc]
    ELSE IF DOMAIN data[Head(ids)] # SavedKeys THEN [raised |-> TRUE, store |-> acc]
    ELSE LoadLoop(Tail(ids), data,
                  Put(acc, Head(ids), FromSaved(Head(ids), data[Head(ids)])))

\* OnLoadError keeping what the loop had stored when the exception came
OnLoadError_KeepLoaded(loaded) == loaded

\* except (json.JSONDecodeError, Exception): scheduled_messages = {}
OnLoadError(loaded) == EmptyDict

\* the messages part of load_data in a new process: scheduled_messages stays {}
\* if there is no file, and becomes {} again if json.load or the loop raises
LoadMessages(f) ==
    IF ~f.exists THEN EmptyDict
    ELSE IF ~f.parses THEN OnLoadError(EmptyDict)
    ELSE LET r == LoadLoop(FileOrder(DOMAIN f.data), f.data, EmptyDict)
         IN IF r.raised THEN OnLoadError(r.store) ELSE r.store

\* the channels part of load_data: channels stays {} if there is no file, and
\* becomes {} if json.load raises
LoadChannels(f) == IF f.exists /\ f.parses THEN f.data ELSE EmptyDict

\* a file that is not there (os.path.exists is False)
NoFile == [exists |-> FALSE, parses |-> FALSE, data |-> EmptyDict]

\* how a save_data call can end: both files written, or an exception at the
\* first or at the second open()
SaveOutcomes == {"ok", "fail_channels", "fail_messages"}

\* channels.json after save_data: rewritten unless opening it fails
SavedChannelsFile(out, chans, old) ==
    IF out = "fail_channels" THEN old
    ELSE [exists |-> TRUE, parses |-> TRUE, data |-> chans]

\* messages.json after save_data: rewritten only if both writes succeed
SavedMessagesFile(out, msgs, old) ==
    IF out = "ok" THEN [exists |-> TRUE, parses |-> TRUE, data |-> MessagesToSave(msgs)]
    ELSE old

\* save_data() on the globals as they are after the handler's mutation
save_data(out) ==
    /\ channelsFile' = SavedChannelsFile(out, channels', channelsFile)
    /\ messagesFile' = SavedMessagesFile(out, scheduled_messages', messagesFile)

-----------------------------------------------------------------------------
Init ==
    /\ now = StartTime
    /\ channels = EmptyDict
    /\ scheduled_messages = EmptyDict
    /\ jobs = {}
    /\ running = {}
    /\ nextJob = 1
    /\ channelsFile = NoFile
    /\ messagesFile = NoFile
    /\ calls = {}
    /\ issued = {}

-----------------------------------------------------------------------------
(* Command handlers.  A handler that answers with an error message returns  *)
(* before it touches the globals: such a step changes nothing.              *)

\* check_authorized
check_authorized(user) == UserId(user) = YOUR_USER_ID

\* argument lists of /addchannel: too few, a bad channel id, and every name
\* with a good id
AddChannelArgs ==
    {<<>>, <<"-100555">>, <<"555", "dev">>}
        \cup {<<"-100555", n>> : n \in ChannelNameArgs}

\* the answer of /addchannel, decided in the order of the handler's checks
AddChannelReply(user, args) ==
    IF ~check_authorized(user) THEN "unauthorized"
    ELSE IF Len(args) < 2 THEN "usage"
    ELSE IF ~StartsWith100(args[1]) THEN "invalid_id"
    ELSE IF Lower(args[2]) \in DOMAIN channels THEN "exists"
    ELSE "ok"

add_channel(user, args, out) ==
    IF AddChannelReply(user, args) = "ok"
    THEN /\ channels' = Put(channels, Lower(args[2]), args[1])
         /\ UNCHANGED scheduled_messages
         /\ save_data(out)
         /\ UNCHANGED <<now, jobs, running, nextJob, calls, issued>>
    ELSE UNCHANGED vars

\* channel_has_messages counting only the active messages
channel_has_messages_ActiveOnly(name) ==
    \E id \in DOMAIN scheduled_messages :
        scheduled_messages[id].active /\ scheduled_messages[id].channel = name

\* any(msg.channel == channel_name for msg in scheduled_messages.values())
channel_has_messages(name) ==
    \E id \in DOMAIN scheduled_messages : scheduled_messages[id].channel = name

DeleteChannelArgs == {<<>>} \cup {<<n>> : n \in ChannelNameArgs}

\* DeleteChannelReply without the test of channel_has_messages
DeleteChannelReply_NoUseCheck(user, args) ==
    IF ~check_authorized(user) THEN "unauthorized"
    ELSE IF Len(args) < 1 THEN "usage"
    ELSE IF Lower(args[1]) \notin DOMAIN channels THEN "not_found"
    ELSE "ok"

\* the answer of /deletechannel, decided in the order of the handler's checks
DeleteChannelReply(user, args) ==
    IF ~check_authorized(user) THEN "unauthorized"
    ELSE IF Len(args) < 1 THEN "usage"
    ELSE IF Lower(args[1]) \notin DOMAIN channels THEN "not_found"
    ELSE IF channel_has_messages(Lower(args[1])) THEN "in_use"
    ELSE "ok"

delete_channel(user, args, out) ==
    IF DeleteChannelReply(user, args) = "ok"
    THEN /\ channels' = Del(channels, Lower(args[1]))
         /\ UNCHANGED scheduled_messages
         /\ save_data(out)
         /\ UNCHANGED <<now, jobs, running, nextJob, calls, issued>>
    ELSE UNCHANGED vars

\* argument lists of /schedule: too few, a time that is no number, a time of
\* zero, a text that is too long, and every channel name with every delay
ScheduleArgs ==
    {<<>>, <<"dev", NotANumber, "hello">>, <<"dev", Minutes(0), "hello">>,
     <<"dev", Minutes(1), "long">>}
        \cup {<<n, Minutes(m), "hello">> : n \in ChannelNameArgs, m \in Delays}

\* ScheduleReply without the test time_minutes <= 0
ScheduleReply_NoPositiveCheck(user, args) ==
    IF ~check_authorized(user) THEN "unauthorized"
    ELSE IF Len(args) < 3 THEN "usage"
    ELSE IF ~args[2].valid THEN "invalid_number"
    ELSE IF Lower(args[1]) \notin DOMAIN channels THEN "not_found"
    ELSE IF TextLen(args[3]) > MaxTextLen THEN "too_long"
    ELSE "ok"

\* the answer of /schedule, decided in the order of the handler's checks
ScheduleReply(user, args) ==
    IF ~check_authorized(user) THEN "unauthorized"
    ELSE IF Len(args) < 3 THEN "usage"
    ELSE IF ~args[2].valid THEN "invalid_number"
    ELSE IF Lower(args[1]) \notin DOMAIN channels THEN "not_found"
    ELSE IF args[2].value <= 0 THEN "not_positive"
    ELSE IF TextLen(args[3]) > MaxTextLen THEN "too_long"
    ELSE "ok"

\* f"msg_{int(datetime.now().timestamp())}": the clock's whole second
MessageId(t) == t

\* datetime.now() + timedelta(minutes=time_minutes)
ScheduledTime(t, minutes) == t + minutes * SecondsPerMinute

\* the ScheduledMessage of /schedule, with the job run_once returned
NewMessage(id, chat, text, due, chan, job) ==
    [message_id |-> id, chat_id |-> chat, text |-> text, scheduled_time |-> due,
     channel |-> chan, job |-> job, active |-> TRUE]

\* job_queue.run_once(send_scheduled_message, time_minutes * 60, data=message_id)
run_once(jid, id, t, minutes) ==
    [jid |-> jid, data |-> id, due |-> t + minutes * SecondsPerMinute]

\* schedule_message undoing its effect when the durable write fails
schedule_message_RollingBack(user, args, out) ==
    IF ScheduleReply(user, args) = "ok" /\ out = "ok"
    THEN LET id == MessageId(now)
             minutes == args[2].value
         IN /\ nextJob <= MaxJobs
            /\ scheduled_messages' =
                   Put(scheduled_messages, id,
                       NewMessage(id, UserId(user), args[3],
                                  ScheduledTime(now, minutes), Lower(args[1]), nextJob))
            /\ jobs' = jobs \cup {run_once(nextJob, id, now, minutes)}
            /\ nextJob' = nextJob + 1
            /\ issued' = issued \cup {id}
            /\ UNCHANGED channels
            /\ save_data(out)
            /\ UNCHANGED <<now, running, calls>>
    ELSE UNCHANGED vars

schedule_message(user, args, out) ==
    IF ScheduleReply(user, args) = "ok"
    THEN LET id == MessageId(now)
             minutes == args[2].value
         IN /\ nextJob <= MaxJobs
            /\ scheduled_messages' =
                   Put(scheduled_messages, id,
                       NewMessage(id, UserId(user), args[3],
                                  ScheduledTime(now, minutes), Lower(args[1]), nextJob))
            /\ jobs' = jobs \cup {run_once(nextJob, id, now, minutes)}
            /\ nextJob' = nextJob + 1
            /\ issued' = issued \cup {id}
            /\ UNCHANGED channels
            /\ save_data(out)
            /\ UNCHANGED <<now, running, calls>>
    ELSE UNCHANGED vars

\* the message ids a button can carry: every id ever shown, and one never issued
ButtonIds == issued \cup {UnknownId}

\* what the button does: nothing for a stranger, for callback data with no known
\* prefix, or for an id that is not in scheduled_messages
ButtonReply(user, kind, id) ==
    IF ~check_authorized(user) THEN "unauthorized"
    ELSE IF kind = "other" THEN "ignored"
    ELSE IF id \notin DOMAIN scheduled_messages THEN "absent"
    ELSE "ok"

\* scheduled_messages[message_id].active = value
SetActive(msgs, id, value) == [msgs EXCEPT ![id].active = value]

\* job.schedule_removal(): the job leaves the queue if it is still in it
schedule_removal(queue, jid) == {j \in queue : j.jid # jid}

\* the delete branch: cancel the record's job if it has one
CancelJobOf(queue, m) == IF m.job # None THEN schedule_removal(queue, m.job) ELSE queue

button_handler(user, kind, id, out) ==
    IF ButtonReply(user, kind, id) = "ok"
    THEN /\ CASE kind = "enable" ->
                   /\ scheduled_messages' = SetActive(scheduled_messages, id, TRUE)
                   /\ UNCHANGED jobs
              [] kind = "disable" ->
                   /\ scheduled_messages' = SetActive(scheduled_messages, id, FALSE)
                   /\ UNCHANGED jobs
              [] OTHER ->
                   /\ jobs' = CancelJobOf(jobs, scheduled_messages[id])
                   /\ scheduled_messages' = Del(scheduled_messages, id)
         /\ UNCHANGED channels
         /\ save_data(out)
         /\ UNCHANGED <<now, running, nextJob, calls, issued>>
    ELSE UNCHANGED vars

-----------------------------------------------------------------------------
(* The job callback send_scheduled_message, split at its awaits *)

\* a callback suspended at an await; message_data is the object it looked up,
\* e the call whose exception the except block handles ("none" outside it)
Callback(j, m, pc) ==
    [jid |-> j.jid, data |-> j.data, message_data |-> m, pc |-> pc, e |-> "none"]

\* CleanUp without its save_data()
CleanUp_Unsaved(id, out) ==
    IF id \in DOMAIN scheduled_messages
    THEN /\ scheduled_messages' = Del(scheduled_messages, id)
         /\ UNCHANGED <<channels, channelsFile, messagesFile>>
    ELSE UNCHANGED <<channels, scheduled_messages, channelsFile, messagesFile>>

\* the "Clean up" block: the record is dropped and saved only if still present
CleanUp(id, out) ==
    IF id \in DOMAIN scheduled_messages
    THEN /\ scheduled_messages' = Del(scheduled_messages, id)
         /\ UNCHANGED channels
         /\ save_data(out)
    ELSE UNCHANGED <<channels, scheduled_messages, channelsFile, messagesFile>>

\* ShouldSend without the test of message_data.active
ShouldSend_IgnoringActive(m) == m.channel \in DOMAIN channels

\* message_data.active and message_data.channel in channels
ShouldSend(m) == m.active /\ m.channel \in DOMAIN channels

\* a due job runs its callback up to the first await, or to its end
FireStart(j, out) ==
    /\ j \in jobs
    /\ j.due <= now
    /\ jobs' = jobs \ {j}
    /\ UNCHANGED <<now, nextJob, issued>>
    /\ IF j.data \notin DOMAIN scheduled_messages
       THEN /\ calls' = calls \cup {<<j.jid, j.data, "absent", NoChannel>>}
            /\ UNCHANGED <<channels, scheduled_messages, running, channelsFile,
                           messagesFile>>
       ELSE LET m == scheduled_messages[j.data] IN
            IF ShouldSend(m)
            THEN \* await context.bot.send_message(chat_id=channel_id, ...)
                 /\ calls' = calls \cup {<<j.jid, j.data, "send", m.channel>>}
                 /\ running' = running \cup {Callback(j, m, "send")}
                 /\ UNCHANGED <<channels, scheduled_messages, channelsFile, messagesFile>>
            ELSE /\ calls' = calls \cup
                       {<<j.jid, j.data, IF m.active THEN "no_channel" ELSE "disabled",
                          m.channel>>}
                 /\ CleanUp(j.data, out)
                 /\ UNCHANGED running

\* the awaited call of a suspended callback returns (ok) or raises
FireResume(f, ok, out) ==
    /\ f \in running
    /\ UNCHANGED <<now, jobs, nextJob, issued>>
    /\ CASE f.pc = "send" /\ ok ->
              \* sent: await the success notification to the requester
              /\ running' = (running \ {f}) \cup {[f EXCEPT !.pc = "notify_ok"]}
              /\ UNCHANGED <<channels, scheduled_messages, channelsFile, messagesFile,
                             calls>>
         [] f.pc \in {"send", "notify_ok"} /\ ~ok ->
              \* except Exception: await the error notification to the requester
              /\ running' = (running \ {f})
                                 \cup {[f EXCEPT !.pc = "notify_err", !.e = f.pc]}
              /\ UNCHANGED <<channels, scheduled_messages, channelsFile, messagesFile,
                             calls>>
         [] f.pc \in {"notify_ok", "notify_err"} /\ ok ->
              /\ CleanUp(f.data, out)
              /\ running' = running \ {f}
              /\ UNCHANGED calls
         [] OTHER ->
              \* the error notification raises inside the except block: the
              \* exception leaves the callback before the clean up
              /\ running' = running \ {f}
              /\ UNCHANGED <<channels, scheduled_messages, channelsFile, messagesFile,
                             calls>>

-----------------------------------------------------------------------------
(* Environment *)

\* the job queue runs a job when its time has come: the clock does not pass a
\* whole minute beyond a job that is due
Tick ==
    /\ (now - StartTime) \div SecondsPerMinute < MaxMinutes
    /\ \A j \in jobs : j.due > now
    /\ now' = now + SecondsPerMinute
    /\ UNCHANGED <<channels, scheduled_messages, jobs, running, nextJob,
                   channelsFile, messagesFile, calls, issued>>

\* load_data(), as main() calls it in a new process
load_data ==
    /\ channels' = LoadChannels(channelsFile)
    /\ scheduled_messages' = LoadMessages(messagesFile)

\* the process stops and main() starts again: the globals are rebuilt from the
\* files, the job queue of the new Application is empty
Restart ==
    /\ load_data
    /\ jobs' = {}
    /\ running' = {}
    /\ UNCHANGED <<now, nextJob, channelsFile, messagesFile, calls, issued>>

\* a file whose text json.load rejects
Unreadable(f) == [f EXCEPT !.parses = FALSE]

\* a messages file that is valid JSON but whose record id has lost its last key
TruncatedAt(f, id) ==
    [f EXCEPT !.data[id] = [k \in DOMAIN f.data[id] \ {"active"} |-> f.data[id][k]]]

\* what the two files can have become while the process was down: one of them
\* deleted, unreadable, or (messages.json) with one record truncated
DamagedFiles ==
    {<<NoFile, messagesFile>>, <<channelsFile, NoFile>>}
        \cup (IF channelsFile.exists
              THEN {<<Unreadable(channelsFile), messagesFile>>} ELSE {})
        \cup (IF messagesFile.exists
              THEN {<<channelsFile, Unreadable(messagesFile)>>} ELSE {})
        \cup (IF messagesFile.exists /\ messagesFile.parses
              THEN {<<channelsFile, TruncatedAt(messagesFile, id)>> :
                        id \in {i \in DOMAIN messagesFile.data :
                                    DOMAIN messagesFile.data[i] = SavedKeys}}
              ELSE {})

\* the process stops, the files are damaged, and main() starts again on them
DamagedRestart(cf, mf) ==
    /\ channelsFile' = cf
    /\ messagesFile' = mf
    /\ channels' = LoadChannels(cf)
    /\ scheduled_messages' = LoadMessages(mf)
    /\ jobs' = {}
    /\ running' = {}
    /\ UNCHANGED <<now, nextJob, calls, issued>>

\* the commands received: the operator's, with every argument list, and one
\* from a stranger (check_authorized answers before the arguments are read)
Requests(argLists) == {<<OtherUser, <<>>>>} \cup {<<Operator, a>> : a \in argLists}

\* the button presses received, likewise
Presses ==
    {<<OtherUser, "other", UnknownId>>}
        \cup {<<Operator, k, id>> : k \in ButtonKinds, id \in ButtonIds}

\* the ends of the save_data call of a command: a rejected command calls none
SavesOf(reply, outs) == IF reply = "ok" THEN outs ELSE {"ok"}

\* the command and button handlers, their saves ending as in outs
Commands(outs) ==
    \/ \E r \in Requests(AddChannelArgs) :
           \E o \in SavesOf(AddChannelReply(r[1], r[2]), outs) :
               add_channel(r[1], r[2], o)
    \/ \E r \in Requests(DeleteChannelArgs) :
           \E o \in SavesOf(DeleteChannelReply(r[1], r[2]), outs) :
               delete_channel(r[1], r[2], o)
    \/ \E r \in Requests(ScheduleArgs) :
           \E o \in SavesOf(ScheduleReply(r[1], r[2]), outs) :
               schedule_message(r[1], r[2], o)
    \/ \E p \in Presses :
           \E o \in SavesOf(ButtonReply(p[1], p[2], p[3]), outs) :
               button_handler(p[1], p[2], p[3], o)

\* the handlers and callbacks of one process, their saves ending as in outs
Run(outs) ==
    \/ Commands(outs)
    \/ \E j \in jobs, o \in outs : FireStart(j, o)
    \/ \E f \in running, ok \in BOOLEAN, o \in outs : FireResume(f, ok, o)
    \/ Tick

\* one process run in which every durable write succeeds
Next == Run({"ok"})

Spec == Init /\ [][Next]_vars

\* the job queue's part of a run: a due job is started, an awaited call ends
Fires ==
    \/ \E j \in jobs : FireStart(j, "ok")
    \/ \E f \in running, ok \in BOOLEAN : FireResume(f, ok, "ok")

\* one process run in which the event loop keeps serving the job queue: a due job
\* is run and an awaited Telegram call returns or raises
SpecFair == Spec /\ WF_vars(Fires)

\* several process runs, every durable write succeeding
NextRestart == Run({"ok"}) \/ Restart

SpecRestart == Init /\ [][NextRestart]_vars

\* message ids made in an earlier run of the process, from earlier seconds
EarlierIds == {StartTime - 2, StartTime - 1}

\* the registries an earlier run can have left
EarlierChannels ==
    {[n \in names |-> "-100555"] : names \in SUBSET {Lower(a) : a \in ChannelNameArgs}}

\* the stores an earlier run can have left for registry chans: deliveries of the
\* operator, Active or Disabled, each naming a channel of chans
EarlierMessages(chans) ==
    UNION {[ids -> {[NewMessage(0, UserId(Operator), "hello", 0, c, None)
                         EXCEPT !.active = a] : c \in DOMAIN chans, a \in BOOLEAN}]
               : ids \in SUBSET EarlierIds}

\* a record of an earlier run under its id, due one minute after it was made
Stored(id, m) ==
    [m EXCEPT !.message_id = MessageId(id), !.scheduled_time = ScheduledTime(id, 1)]

\* the process is about to start (the globals are the {} of lines 34-35) on the
\* files that the last save_data of an earlier run wrote
InitStart ==
    /\ now = StartTime
    /\ channels = EmptyDict
    /\ scheduled_messages = EmptyDict
    /\ jobs = {}
    /\ running = {}
    /\ nextJob = 1
    /\ calls = {}
    /\ issued = {}
    /\ \E chans \in EarlierChannels :
           \E msgs \in EarlierMessages(chans) :
               LET store == [id \in DOMAIN msgs |-> Stored(id, msgs[id])] IN
               /\ channelsFile = SavedChannelsFile("ok", chans, NoFile)
               /\ messagesFile = SavedMessagesFile("ok", store, NoFile)

\* the process starts, again and again, on files that are intact or get damaged
\* while it is down
NextStart == Restart \/ \E d \in DamagedFiles : DamagedRestart(d[1], d[2])

SpecStart == InitStart /\ [][NextStart]_vars

\* the operator's commands of one process run up to the first timer that comes
\* due, any durable write failing
NextFaults == Commands(SaveOutcomes) \/ Tick

SpecFaults == Init /\ [][NextFaults]_vars

\* several process runs in which any durable write can fail
NextFaultsRestart == Run(SaveOutcomes) \/ Restart

SpecFaultsRestart == Init /\ [][NextFaultsRestart]_vars

-----------------------------------------------------------------------------
(* Derived notions used by the properties *)

\* the outstanding jobs that carry message id
JobsOf(id) == {j \in jobs : j.data = id}

\* the callbacks in progress for message id
RunningOf(id) == {f \in running : f.data = id}

\* the channel sends ever invoked for message id
SendsOf(id) == {c \in calls : c[2] = id /\ c[3] = "send"}

\* the message ids whose timer fired while the record was Disabled
SkippedIds == {c[2] : c \in {d \in calls : d[3] = "disabled"}}

\* an accepted /schedule command: the step of schedule_message that stores a record
Scheduling(args) ==
    /\ ScheduleReply(Operator, args) = "ok"
    /\ schedule_message(Operator, args, "ok")

-----------------------------------------------------------------------------
(* C1 *)

\* C1: after a restart, every delivery loaded from the persisted store (load_data
\* builds it with no job) has a timer armed for its due_at, or its callback is
\* already running.
C1_LoadedDeliveriesAreArmed ==
    \A id \in DOMAIN scheduled_messages :
        scheduled_messages[id].job = None =>
            \/ \E j \in JobsOf(id) : j.due = scheduled_messages[id].scheduled_time
            \/ RunningOf(id) # {}

(* C2 *)

\* C2: every accepted /schedule returns an id never issued before, adds exactly one
\* record (Active, due_at = now + delay) and leaves every existing record
\* unchanged and present.
C2_CreateAddsOneFreshRecord ==
    [][\A args \in ScheduleArgs :
          Scheduling(args) =>
              LET id == MessageId(now) IN
              /\ id \notin issued
              /\ DOMAIN scheduled_messages' = DOMAIN scheduled_messages \cup {id}
              /\ Cardinality(DOMAIN scheduled_messages')
                     = Cardinality(DOMAIN scheduled_messages) + 1
              /\ \A old \in DOMAIN scheduled_messages :
                     scheduled_messages'[old] = scheduled_messages[old]
              /\ scheduled_messages'[id].active
              /\ scheduled_messages'[id].scheduled_time
                     = now + args[2].value * SecondsPerMinute]_vars

(* C3 *)

\* C3: every delivery id in the store has exactly one outstanding timer (none
\* only while its own callback runs), and an operator delete leaves no timer
\* for the id it removed.
C3_OneTimerPerDelivery ==
    [][/\ \A id \in DOMAIN scheduled_messages' :
              Cardinality(JobsOf(id)') + Cardinality(RunningOf(id)') = 1
       /\ \A id \in ButtonIds :
              (/\ ButtonReply(Operator, "delete", id) = "ok"
               /\ button_handler(Operator, "delete", id, "ok"))
                  => JobsOf(id)' = {}]_vars

(* C4 *)

\* C4: the channel send is invoked at most once per delivery id, whatever the
\* interleaving of the callbacks that carry the id.
C4_SentExactlyOnce ==
    \A id \in issued : Cardinality(SendsOf(id)) <= 1

(* C5 *)

\* C5: a callback that finds its delivery Disabled invokes no channel send and
\* removes the record from the store and from the saved file; no send is ever
\* invoked afterwards for an id consumed that way, and the id stays out of the
\* store.
C5_DisabledFireIsConsumed ==
    [][/\ \A j \in jobs :
              (/\ FireStart(j, "ok")
               /\ j.data \in DOMAIN scheduled_messages
               /\ ~scheduled_messages[j.data].active)
                  => /\ j.data \notin DOMAIN scheduled_messages'
                     /\ j.data \notin DOMAIN messagesFile'.data
                     /\ SendsOf(j.data)' = SendsOf(j.data)
                     /\ running' = running
                     /\ JobsOf(j.data)' = JobsOf(j.data) \ {j}
       /\ \A id \in SkippedIds :
              /\ SendsOf(id)' = SendsOf(id)
              /\ id \notin DOMAIN scheduled_messages']_vars

\* a delivery was disabled, its timer fired, and it is gone without a send
C5_Witness ==
    \E c \in calls :
        /\ c[3] = "disabled"
        /\ SendsOf(c[2]) = {}
        /\ c[2] \notin DOMAIN scheduled_messages

(* C6 *)

\* C6: when a callback that found its record in the store has finished, the
\* record is absent from the store and from the saved file, whatever the
\* outcomes of the channel send and of the notifications.
C6_FinishedFireHasRetired ==
    [][/\ \A f \in running, ok \in BOOLEAN :
              (/\ FireResume(f, ok, "ok")
               /\ {g \in running' : g.jid = f.jid} = {})
                  => /\ f.data \notin DOMAIN scheduled_messages'
                     /\ f.data \notin DOMAIN messagesFile'.data
       /\ \A j \in jobs :
              (/\ FireStart(j, "ok")
               /\ j.data \in DOMAIN scheduled_messages
               /\ {g \in running' : g.jid = j.jid} = {})
                  => /\ j.data \notin DOMAIN scheduled_messages'
                     /\ j.data \notin DOMAIN messagesFile'.data]_vars

(* C7 *)

\* C7: /deletechannel of a registered channel that some stored delivery names
\* (Active or Disabled) is refused and changes nothing; of a registered channel
\* that no stored delivery names, it removes exactly that channel and leaves
\* the other channels, the deliveries and the timers unchanged.
C7_DeleteChannelGuardsReferences ==
    [][\A n \in ChannelNameArgs :
          LET c == Lower(n)
              referenced == \E id \in DOMAIN scheduled_messages :
                                scheduled_messages[id].channel = c
          IN (c \in DOMAIN channels /\ delete_channel(Operator, <<n>>, "ok")) =>
                 IF referenced
                 THEN /\ DeleteChannelReply(Operator, <<n>>) = "in_use"
                      /\ UNCHANGED vars
                 ELSE /\ DeleteChannelReply(Operator, <<n>>) = "ok"
                      /\ DOMAIN channels' = DOMAIN channels \ {c}
                      /\ \A o \in DOMAIN channels' : channels'[o] = channels[o]
                      /\ channelsFile'.data = channels'
                      /\ UNCHANGED <<scheduled_messages, jobs, running>>]_vars

\* a channel that a delivery was sent to is gone from the registry, while the
\* other channel, named by a Disabled delivery, is still registered
C7_Witness ==
    \E c \in calls :
        /\ c[3] = "send"
        /\ c[4] \notin DOMAIN channels
        /\ \E id \in DOMAIN scheduled_messages :
               /\ ~scheduled_messages[id].active
               /\ scheduled_messages[id].channel \in DOMAIN channels

(* C8 *)

\* C8: enable and disable change only the active flag of their delivery; no step
\* changes the due_at stored under an id; a channel send for a delivery starts
\* at that delivery's due_at.
C8_DueTimeIsFixed ==
    [][/\ \A id \in ButtonIds, k \in {"enable", "disable"} :
              (/\ ButtonReply(Operator, k, id) = "ok"
               /\ button_handler(Operator, k, id, "ok"))
                  => /\ DOMAIN scheduled_messages' = DOMAIN scheduled_messages
                     /\ \A o \in DOMAIN scheduled_messages :
                            IF o = id
                            THEN scheduled_messages'[o] =
                                     [scheduled_messages[o] EXCEPT !.active = (k = "enable")]
                            ELSE scheduled_messages'[o] = scheduled_messages[o]
                     /\ UNCHANGED <<channels, jobs, running>>
       /\ \A id \in DOMAIN scheduled_messages \cap DOMAIN scheduled_messages' :
              scheduled_messages'[id].scheduled_time = scheduled_messages[id].scheduled_time
       /\ \A c \in calls' \ calls :
              c[3] = "send" => scheduled_messages[c[2]].scheduled_time = now]_vars

(* C9 *)

\* the fields of a delivery that the files keep
Persistent(m) ==
    [message_id |-> m.message_id, chat_id |-> m.chat_id, text |-> m.text,
     scheduled_time |-> m.scheduled_time, channel |-> m.channel, active |-> m.active]

\* C9: for the channels and deliveries of every reachable state, loading what
\* save_data writes gives the same channel mapping and the same deliveries, equal
\* in id, requester, text, due_at, channel and active flag.
C9_SaveLoadRoundTrip ==
    LET cf == SavedChannelsFile("ok", channels, channelsFile)
        mf == SavedMessagesFile("ok", scheduled_messages, messagesFile)
        loaded == LoadMessages(mf)
    IN /\ LoadChannels(cf) = channels
       /\ DOMAIN loaded = DOMAIN scheduled_messages
       /\ \A id \in DOMAIN loaded :
              /\ loaded[id].message_id = id
              /\ Persistent(loaded[id]) = Persistent(scheduled_messages[id])

\* the store holds a Disabled delivery that carries a job, and a channel
C9_Witness ==
    /\ channels # EmptyDict
    /\ \E id \in DOMAIN scheduled_messages :
           /\ ~scheduled_messages[id].active
           /\ scheduled_messages[id].job # None
           /\ scheduled_messages[id].scheduled_time % SecondsPerMinute # 0

(* C10 *)

\* C10: with every durable write succeeding, the saved files hold the registry
\* and the deliveries of memory in every state: each handler and each callback
\* saves in the step that mutates (a file not yet written counts as empty).
C10_FilesMirrorMemory ==
    /\ channelsFile.data = channels
    /\ messagesFile.data = MessagesToSave(scheduled_messages)

\* a callback has sent and retired its delivery, another delivery is still
\* stored, and the files exist
C10_Witness ==
    /\ channelsFile.exists /\ messagesFile.exists
    /\ scheduled_messages # EmptyDict
    /\ \E c \in calls :
           /\ c[3] = "send"
           /\ c[2] \notin DOMAIN scheduled_messages
           /\ RunningOf(c[2]) = {}

(* C11 *)

\* the parts of the state a rejected command must leave alone: the registry, the
\* store, the armed timers and the two saved files
Guarded == <<channels, scheduled_messages, jobs, channelsFile, messagesFile>>

\* C11: a rejected command changes neither the registry, the store, the armed
\* timers nor the saved files: /schedule with a delay <= 0, a text over 4000
\* characters or an unregistered channel; /addchannel with a registered name or
\* an id that does not start with -100; /deletechannel of an unregistered
\* channel or of one that a stored delivery names; a button for an id that is not
\* in the store.
C11_RejectedCommandsChangeNothing ==
    [][\/ UNCHANGED Guarded
       \/ \* a step that changes one of them is the step of no rejected command
          /\ \A args \in ScheduleArgs :
                 ~(/\ Len(args) = 3
                   /\ args[2].valid
                   /\ \/ args[2].value <= 0
                      \/ TextLen(args[3]) > MaxTextLen
                      \/ Lower(args[1]) \notin DOMAIN channels
                   /\ schedule_message(Operator, args, "ok"))
          /\ \A args \in AddChannelArgs :
                 ~(/\ Len(args) = 2
                   /\ \/ ~StartsWith100(args[1])
                      \/ Lower(args[2]) \in DOMAIN channels
                   /\ add_channel(Operator, args, "ok"))
          /\ \A n \in ChannelNameArgs :
                 ~(/\ \/ Lower(n) \notin DOMAIN channels
                      \/ \E id \in DOMAIN scheduled_messages :
                             scheduled_messages[id].channel = Lower(n)
                   /\ delete_channel(Operator, <<n>>, "ok"))
          /\ \A id \in ButtonIds, k \in {"enable", "disable", "delete"} :
                 ~(/\ id \notin DOMAIN scheduled_messages
                   /\ button_handler(Operator, k, id, "ok"))]_vars

\* a state in which a command of each rejected kind can arrive: one channel is
\* registered and named by a stored delivery, the other is not registered, and
\* an id that was issued is no longer in the store
C11_Witness ==
    /\ \E n \in ChannelNameArgs : DeleteChannelReply(Operator, <<n>>) = "in_use"
    /\ \E n \in ChannelNameArgs : DeleteChannelReply(Operator, <<n>>) = "not_found"
    /\ \E args \in AddChannelArgs : AddChannelReply(Operator, args) = "exists"
    /\ \E args \in AddChannelArgs : AddChannelReply(Operator, args) = "invalid_id"
    /\ \E args \in ScheduleArgs : ScheduleReply(Operator, args) = "not_found"
    /\ \E args \in ScheduleArgs : ScheduleReply(Operator, args) = "not_positive"
    /\ \E args \in ScheduleArgs : ScheduleReply(Operator, args) = "too_long"
    /\ \E id \in issued : ButtonReply(Operator, "delete", id) = "absent"
    /\ scheduled_messages # EmptyDict /\ jobs # {} /\ messagesFile.exists

(* C12 *)

\* C12: while a callback for delivery id is in progress (it has looked the record
\* up and has not yet reached the end of send_scheduled_message), no enable,
\* disable or delete button changes the record stored under id.
C12_NoCommandDuringFire ==
    [][\A id \in ButtonIds, k \in {"enable", "disable", "delete"} :
          (/\ RunningOf(id) # {}
           /\ button_handler(Operator, k, id, "ok"))
              => /\ id \in DOMAIN scheduled_messages'
                 /\ scheduled_messages'[id] = scheduled_messages[id]]_vars

(* C13 *)

\* a start of the process: main() calls load_data on the files as they are then
Starting == Restart \/ \E d \in DamagedFiles : DamagedRestart(d[1], d[2])

\* json.load of the file fails, or there is no file to load
MissingOrCorrupt(f) == ~f.exists \/ ~f.parses

\* some record of the messages file lacks a key that load_data reads
HasBadRecord(f) == \E id \in DOMAIN f.data : DOMAIN f.data[id] # SavedKeys

\* C13: when the process starts on a channels file that is missing or unreadable,
\* the registry is empty after load_data; when it starts on a messages file that
\* is missing, unreadable, or holds a record that does not parse (also after
\* records that do), the store is empty: no record loaded before the failure
\* stays.  load_data has no other outcome: it catches every Exception.
C13_FailedLoadGivesEmptyCollection ==
    [][/\ (MissingOrCorrupt(channelsFile') /\ Starting) => channels' = EmptyDict
       /\ ((MissingOrCorrupt(messagesFile') \/ HasBadRecord(messagesFile')) /\ Starting)
              => scheduled_messages' = EmptyDict]_vars

\* the process has started on a messages file whose first record parses and whose
\* second does not: the store is empty, the registry was loaded
C13_Witness ==
    /\ messagesFile.exists /\ messagesFile.parses
    /\ \E a, b \in DOMAIN messagesFile.data :
           /\ a < b
           /\ DOMAIN messagesFile.data[a] = SavedKeys
           /\ DOMAIN messagesFile.data[b] # SavedKeys
    /\ scheduled_messages = EmptyDict
    /\ channels # EmptyDict
    /\ jobs = {} /\ running = {}

(* C14 *)

\* the ways a save_data call fails
FailedSaves == SaveOutcomes \ {"ok"}

\* C14: in every state, each accepted command whose save_data fails (at either
\* file) is a step the handler completes, and the step applies the command's
\* effect in memory: the channel is added or removed, the delivery is stored
\* Active with its job in the queue, toggled with its job left in the queue,
\* or removed.
C14_FailedSaveKeepsEffect ==
    \A o \in FailedSaves :
        /\ \A args \in AddChannelArgs :
               AddChannelReply(Operator, args) = "ok" =>
                   ENABLED (/\ add_channel(Operator, args, o)
                            /\ channels' = Put(channels, Lower(args[2]), args[1]))
        /\ \A n \in ChannelNameArgs :
               DeleteChannelReply(Operator, <<n>>) = "ok" =>
                   ENABLED (/\ delete_channel(Operator, <<n>>, o)
                            /\ channels' = Del(channels, Lower(n)))
        /\ \A args \in ScheduleArgs :
               (ScheduleReply(Operator, args) = "ok" /\ nextJob <= MaxJobs) =>
                   ENABLED (/\ schedule_message(Operator, args, o)
                            /\ MessageId(now) \in DOMAIN scheduled_messages'
                            /\ scheduled_messages'[MessageId(now)].active
                            /\ \E j \in jobs' \ jobs :
                                   /\ j.data = MessageId(now)
                                   /\ j.jid = scheduled_messages'[MessageId(now)].job)
        /\ \A id \in DOMAIN scheduled_messages :
               /\ \A k \in {"enable", "disable"} :
                      ENABLED (/\ button_handler(Operator, k, id, o)
                               /\ scheduled_messages' =
                                      SetActive(scheduled_messages, id, k = "enable")
                               /\ jobs' = jobs)
               /\ ENABLED (/\ button_handler(Operator, "delete", id, o)
                           /\ id \notin DOMAIN scheduled_messages')

\* a save has failed and its command took effect: the store holds an Active
\* delivery with its job in the queue that messages.json does not hold, and
\* channels.json holds a channel that is no longer registered
C14_Witness ==
    /\ \E id \in DOMAIN scheduled_messages :
           /\ id \notin DOMAIN messagesFile.data
           /\ scheduled_messages[id].active
           /\ \E j \in JobsOf(id) : j.jid = scheduled_messages[id].job
    /\ \E c \in DOMAIN channelsFile.data : c \notin DOMAIN channels

(* C15 *)

\* C15 is about a callback that finds its delivery Active and naming a channel
\* that is not registered.  No callback ever does: a timer exists only in the
\* process that issued it, and there schedule_message and delete_channel keep
\* every stored delivery's channel registered; a restart that loads a store
\* with unregistered channels starts with an empty job queue.
C15_CaseNeverArises == \A c \in calls : c[3] # "no_channel"

(* C16 *)

\* C16: a callback sends the error notification to the requester only after its
\* channel send raised: a callback that awaits the error notification (pc
\* "notify_err") entered the except block from the channel send (e "send"),
\* never from a call made after the text was delivered.
C16_ErrorNotifiedOnlyAfterFailedSend ==
    \A f \in running : f.pc = "notify_err" => f.e = "send"

(* C17 *)

\* the message ids a run can issue: the clock's reading at each of its minutes
MessageIds == {MessageId(StartTime + m * SecondsPerMinute) : m \in 0..MaxMinutes}

\* the operator has deleted delivery id: it was issued, it is not in the store,
\* and no callback retired it (none ever found it in the store)
DeletedByOperator(id) ==
    /\ id \in issued
    /\ id \notin DOMAIN scheduled_messages
    /\ \A c \in calls : c[2] = id => c[3] = "absent"

\* C17: once the operator's delete of delivery id has completed, no channel send
\* is ever started for id: every callback that carries id and runs afterwards
\* finds no record.
C17_NoSendAfterDelete ==
    \A id \in MessageIds : [](DeletedByOperator(id) => [](SendsOf(id) = {}))

(* C18 *)

\* C18: in every state of one process run, every delivery in the store names a
\* channel that is registered.
C18_StoredChannelsAreRegistered ==
    \A id \in DOMAIN scheduled_messages :
        scheduled_messages[id].channel \in DOMAIN channels

\* the store holds two deliveries on different channels, one of them Disabled,
\* the other with its callback in progress
C18_Witness ==
    \E a, b \in DOMAIN scheduled_messages :
        /\ scheduled_messages[a].channel # scheduled_messages[b].channel
        /\ ~scheduled_messages[a].active
        /\ RunningOf(b) # {}

(* C19 *)

\* C19: in every state, also after saves that failed and across restarts, every
\* delivery in messages.json names a channel in channels.json.
C19_SavedDeliveriesNameSavedChannels ==
    \A id \in DOMAIN messagesFile.data :
        messagesFile.data[id].channel \in DOMAIN channelsFile.data

====
